---- MODULE Spec2Model ----
(***************************************************************************)
(* Lazy-tensor IR nodes of the TorchScript backend (TsNode.cpp): content   *)
(* hashes computed at construction, and deferred shape inference memoized  *)
(* through the process-wide ShapeCache keyed by the node's hash().         *)
(***************************************************************************)
EXTENDS Integers, Sequences, FiniteSets, TLC

\* ------------------------------------------------------------------ bounds
\* Nodes ever constructed in one run.
MaxNodes == 4
\* Largest LTC_IR_SHAPE_CACHE_SIZE the environment is given.
MaxCacheSize == 1

\* Lengths of the operand lists (OpList) handed to a constructor.
Arities == {1, 2}
\* The traces that exercise the ShapeCache apply binary operations.
TraceArities == {2}

\* Threads building traces concurrently.
Threads == {1, 2}

\* OpKind hashes (op.hash()) and derived-class hash seeds, as atoms.
Ops == {1, 2}
Seeds == {10, 11}
\* The <<op, hash_seed>> pairs of the operations applied to operands: one
\* operation under two seeds, and a second operation.
OpSeeds == {<<1, 10>>, <<1, 11>>, <<2, 10>>}
\* The narrower alphabets of the runs that exercise the ShapeCache.
TraceOps == {1}
TraceSeeds == {10}

\* ------------------------------------------------------------------ Shape
\* lazy_tensors::Shape: element type, dimensions, and tuple element shapes.
\* Shape() is the default-constructed value (element type INVALID).
DefaultShape == [element_type |-> 0, dimensions |-> <<>>, tuple_shapes |-> <<>>]

LeafShape(dims) == [element_type |-> 11, dimensions |-> dims, tuple_shapes |-> <<>>]

\* Shapes handed to the leaf constructor: two of rank 1, one of rank 2.
LeafShapes == {LeafShape(<<2>>), LeafShape(<<3>>), LeafShape(<<2, 2>>)}
\* The leaf shapes of the runs that exercise the ShapeCache (equal rank).
TraceShapes == {LeafShape(<<2>>), LeafShape(<<3>>)}

\* shape.rank()
Rank(shape) == Len(shape.dimensions)

\* shape.ToString(): the element type followed by the dimensions, as text.
ShapeToString(shape) == <<shape.element_type>> \o shape.dimensions

\* ------------------------------------------------------------------ hashes
\* hash_t values are words over the integers in prefix form, so that
\* HashCombine is deterministic, order-sensitive and free of collisions:
\*   <<k>>, k > 0        an atom (an OpKind hash or a hash seed)
\*   <<0>> \o a \o b     HashCombine(a, b)
\*   <<-1, n>> \o text   Hash of a string of n characters
\*   <<-3, r>>           Hash of the integer r
HashCombine(a, b) == <<0>> \o a \o b

HashString(text) == <<-1, Len(text)>> \o text

HashInt(i) == <<-3, i>>

\* op.hash()
OpHash(op) == <<op>>

\* The hash_seed argument as a hash_t.
SeedHash(seed) == <<seed>>

VARIABLES
    nodes,             \* the nodes constructed so far, in construction order
    cache,             \* ShapeCache contents: a set of [key, value] entries
    shape_cache_size,  \* the capacity GetShapeCache() read from the environment
    dynamic_mode,      \* lazy_tensors::Shape::IsDynamicMode()
    workers,           \* the threads of this process that build traces
    th,                \* per thread: where it is inside GetOpShape
    last,              \* single-threaded process: the resolution that finished last
    ret,               \* what the most recent accessor call handed to its caller
    loss               \* the most recent call of a loss function of Loss.cpp

vars == <<nodes, cache, shape_cache_size, dynamic_mode, workers, th, last, ret, loss>>

NodeIds == 1..Len(nodes)

\* Node::hash(): the dag hash.
NodeHash(ns, n) == ns[n].dag_hash

\* Output::hash() of an operand: the dag hash of the node it refers to.
OperandHash(ns, operand) == NodeHash(ns, operand)

\* OperandHashes with the arguments of HashCombine exchanged.
RECURSIVE OperandHashes_Swapped(_, _, _)
OperandHashes_Swapped(ns, operands, seed) ==
    IF operands = <<>> THEN seed
    ELSE OperandHashes_Swapped(ns, Tail(operands),
                               HashCombine(OperandHash(ns, Head(operands)), seed))

\* OperandHashes hashing which node each operand is, not operand.hash().
RECURSIVE OperandHashes_ByIdentity(_, _, _)
OperandHashes_ByIdentity(ns, operands, seed) ==
    IF operands = <<>> THEN seed
    ELSE OperandHashes_ByIdentity(ns, Tail(operands),
                                  HashCombine(seed, HashInt(Head(operands))))

\* OperandHashes combining the operands in an order that does not depend on
\* the order they are given in.
RECURSIVE OperandHashes_Unordered(_, _, _)
OperandHashes_Unordered(ns, operands, seed) ==
    IF operands = <<>> THEN seed
    ELSE LET hs == {OperandHash(ns, operands[i]) : i \in 1..Len(operands)}
             h == CHOOSE x \in hs : TRUE
             i == CHOOSE j \in 1..Len(operands) : OperandHash(ns, operands[j]) = h
             rest == [j \in 1..(Len(operands) - 1) |->
                         IF j < i THEN operands[j] ELSE operands[j + 1]]
         IN  OperandHashes_Unordered(ns, rest, HashCombine(seed, h))

\* OperandHashes(operands, seed): left fold of HashCombine over the operands.
RECURSIVE OperandHashes(_, _, _)
OperandHashes(ns, operands, seed) ==
    IF operands = <<>> THEN seed
    ELSE OperandHashes(ns, Tail(operands),
                       HashCombine(seed, OperandHash(ns, Head(operands))))

\* GetOpHash hashing the text of the shape in either mode.
GetOpHash_TextOnly(op, shape, hash_seed) ==
    HashCombine(HashCombine(OpHash(op), HashString(ShapeToString(shape))),
                SeedHash(hash_seed))

\* TsNode::GetOpHash(op, shape, hash_seed)
GetOpHash(op, shape, hash_seed) ==
    IF dynamic_mode
    THEN HashCombine(HashCombine(OpHash(op), HashInt(Rank(shape))),
                     SeedHash(hash_seed))
    ELSE HashCombine(HashCombine(OpHash(op), HashString(ShapeToString(shape))),
                     SeedHash(hash_seed))

\* The node_hash argument without the hash seed.
OpNodeHash_NoSeed(op, hash_seed) == OpHash(op)

\* The node_hash argument TsNode hands to Node for a node with operands.
OpNodeHash(op, hash_seed) == HashCombine(OpHash(op), SeedHash(hash_seed))

\* The dag_hash argument TsNode hands to Node for a node with operands.
OpDagHash(ns, op, operands, hash_seed) ==
    OperandHashes(ns, operands, HashCombine(OpHash(op), SeedHash(hash_seed)))

\* ------------------------------------------------------------------ nodes
\* A node whose construction has finished and whose shape has been set.
Complete(ns, n) == ns[n].state = "live" /\ ns[n].shape_ # DefaultShape

\* Operand lists of the given arities over the nodes in `pool`.
ListsOver(pool, arities) == UNION {[1..k -> pool] : k \in arities}

\* Operand lists over the complete nodes.
OperandLists == ListsOver({n \in NodeIds : Complete(nodes, n)}, Arities)

\* Operand lists over the leaf nodes: the traces that exercise the
\* ShapeCache apply their operations to input tensors.
TraceOperandLists == ListsOver({n \in NodeIds : nodes[n].operands = <<>>}, TraceArities)

\* The shape_fn a concrete node type supplies: the result has the shape of
\* the first operand, and inference fails when the operands' shapes differ.
ShapeFn(ns, n) ==
    LET ops == ns[n].operands
        s1 == ns[ops[1]].shape_
    IN  IF \A i \in 1..Len(ops) : ns[ops[i]].shape_ = s1
        THEN [ok |-> TRUE, shape |-> s1]
        ELSE [ok |-> FALSE, shape |-> DefaultShape]

\* Node(op, num_outputs, node_hash): no operands, dag_hash = node_hash.
LeafNode(op, shape, num_outputs, hash_seed) ==
    [op |-> op, hash_seed |-> hash_seed, operands |-> <<>>,
     num_outputs |-> num_outputs,
     node_hash |-> GetOpHash(op, shape, hash_seed),
     dag_hash |-> GetOpHash(op, shape, hash_seed),
     shape_ |-> shape, state |-> "live"]

\* Node(op, operands, num_outputs, node_hash, dag_hash) with shape_(shape).
OpNode(op, operands, shape, num_outputs, hash_seed, state) ==
    [op |-> op, hash_seed |-> hash_seed, operands |-> operands,
     num_outputs |-> num_outputs,
     node_hash |-> OpNodeHash(op, hash_seed),
     dag_hash |-> OpDagHash(nodes, op, operands, hash_seed),
     shape_ |-> shape, state |-> state]

\* ------------------------------------------------------------------ cache
CacheHas(c, key) == \E e \in c : e.key = key

CacheValue(c, key) == (CHOOSE e \in c : e.key = key).value

\* ShapeCache::Get(key): the entry, or a miss.
CacheGet(c, key) ==
    IF CacheHas(c, key) THEN [hit |-> TRUE, value |-> CacheValue(c, key)]
    ELSE [hit |-> FALSE, value |-> DefaultShape]

\* ShapeCache::Add that inserts without making room.
CacheAdd_NoEviction(c, cap, key, value) ==
    {[cache |-> {e \in c : e.key # key} \cup {[key |-> key, value |-> value]},
      stored |-> value]}

\* ShapeCache::Add(key, value): the caches the call may leave behind, each
\* with the stored Shape it returns. An existing entry is kept or
\* overwritten; a full cache loses one entry before the insertion.
CacheAdd(c, cap, key, value) ==
    IF CacheHas(c, key)
    THEN {[cache |-> c, stored |-> CacheValue(c, key)],
          [cache |-> {e \in c : e.key # key} \cup {[key |-> key, value |-> value]},
           stored |-> value]}
    ELSE IF Cardinality(c) >= cap
    THEN {[cache |-> (c \ {victim}) \cup {[key |-> key, value |-> value]},
           stored |-> value] : victim \in c}
    ELSE {[cache |-> c \cup {[key |-> key, value |-> value]}, stored |-> value]}

\* ------------------------------------------------------------------ threads
NoCall == [valid |-> FALSE, node |-> 0, key |-> <<>>, outcome |-> "none",
           shape |-> DefaultShape, calls |-> 0]

Idle == [pc |-> "idle", node |-> 0, result |-> DefaultShape, calls |-> 0, peer |-> 0]

\* The threads other than t that are inside GetOpShape for a node whose
\* hash is that of node n of ns.
Racing(ns, t, n) ==
    {u \in Threads \ {t} : th[u].pc # "idle" /\ NodeHash(ns, th[u].node) = NodeHash(ns, n)}

\* Thread t enters GetOpShape for node n of ns. `peer` notes, for each of
\* two calls that overlap on one hash, the node of the other.
Enter(ns, t, n) ==
    [u \in Threads |->
        IF u = t
        THEN [pc |-> "get", node |-> n, result |-> DefaultShape, calls |-> 0,
              peer |-> IF Racing(ns, t, n) = {} THEN 0
                       ELSE th[CHOOSE v \in Racing(ns, t, n) : TRUE].node]
        ELSE IF u \in Racing(ns, t, n) THEN [th[u] EXCEPT !.peer = n]
        ELSE th[u]]

\* The record of thread t's call as it finishes with `outcome`, having
\* invoked shape_fn `calls` times and left the node with `shape`.
Finished(t, outcome, shape, calls) ==
    IF workers = {t}
    THEN [valid |-> TRUE, node |-> th[t].node,
          key |-> NodeHash(nodes, th[t].node), outcome |-> outcome,
          shape |-> shape, calls |-> calls]
    ELSE last

\* No accessor has been called.
NoRet == [fn |-> "none"]

\* No loss function has been called.
NoLoss == [fn |-> "none"]

Init ==
    /\ nodes = <<>>
    /\ cache = {}
    /\ shape_cache_size \in 1..MaxCacheSize
    /\ dynamic_mode \in BOOLEAN
    /\ workers \in {{1}, Threads}
    /\ th = [t \in Threads |-> Idle]
    /\ last = NoCall
    /\ ret = NoRet
    /\ loss = NoLoss

\* TsNode(op, shape, num_outputs, hash_seed). A trace creates its input
\* tensors before the operations applied to them.
CtorLeaf(op, shape, num_outputs, hash_seed) ==
    /\ Len(nodes) < MaxNodes
    /\ \A n \in NodeIds : nodes[n].operands = <<>>
    /\ nodes' = Append(nodes, LeafNode(op, shape, num_outputs, hash_seed))
    /\ UNCHANGED <<ret, loss, cache, shape_cache_size, dynamic_mode, workers, th, last>>

\* TsNode(op, operands, shape, num_outputs, hash_seed): the caller hands in
\* the shape.
CtorShape(op, operands, shape, num_outputs, hash_seed) ==
    /\ Len(nodes) < MaxNodes
    /\ nodes' = Append(nodes, OpNode(op, operands, shape, num_outputs, hash_seed,
                                      "live"))
    /\ UNCHANGED <<ret, loss, cache, shape_cache_size, dynamic_mode, workers, th, last>>

\* TsNode(op, operands, num_outputs, hash_seed): shape_ stays Shape().
CtorNoShape(op, operands, num_outputs, hash_seed) ==
    /\ Len(nodes) < MaxNodes
    /\ nodes' = Append(nodes,
                       OpNode(op, operands, DefaultShape, num_outputs, hash_seed,
                              "live"))
    /\ UNCHANGED <<ret, loss, cache, shape_cache_size, dynamic_mode, workers, th, last>>

\* TsNode(op, operands, shape_fn, num_outputs, hash_seed): delegates to the
\* eager constructor with Shape(), then calls GetOpShape in its body.
CtorShapeFn(t, op, operands, num_outputs, hash_seed) ==
    /\ Len(nodes) < MaxNodes
    /\ t \in workers
    /\ th[t].pc = "idle"
    /\ nodes' = Append(nodes,
                       OpNode(op, operands, DefaultShape, num_outputs, hash_seed,
                              "constructing"))
    /\ th' = Enter(nodes', t, Len(nodes) + 1)
    /\ UNCHANGED <<ret, loss, cache, shape_cache_size, dynamic_mode, workers, last>>

\* TsNode::SetShapeDeferred(shape_fn) on a constructed node with operands.
SetShapeDeferred(t, n) ==
    /\ t \in workers
    /\ th[t].pc = "idle"
    /\ n \in NodeIds
    /\ nodes[n].state = "live"
    /\ nodes[n].operands # <<>>
    /\ \A u \in Threads : th[u].pc # "idle" => th[u].node # n
    /\ th' = Enter(nodes, t, n)
    /\ UNCHANGED <<ret, loss, nodes, cache, shape_cache_size, dynamic_mode, workers, last>>

\* GetOpShape without the lookup: every call goes on to shape_fn.
Get_NeverHit(t) ==
    /\ th[t].pc = "get"
    /\ th' = [th EXCEPT ![t].pc = "fn"]
    /\ UNCHANGED <<ret, loss, nodes, cache, shape_cache_size, dynamic_mode, workers, last>>

\* GetOpShape: shape_cache->Get(hash()); on a hit the node adopts the entry.
Get(t) ==
    /\ th[t].pc = "get"
    /\ LET n == th[t].node
           got == CacheGet(cache, NodeHash(nodes, n))
       IN  IF got.hit
           THEN /\ nodes' = [nodes EXCEPT ![n].shape_ = got.value,
                                          ![n].state = "live"]
                /\ th' = [th EXCEPT ![t] = Idle]
                /\ last' = Finished(t, "hit", got.value, th[t].calls)
           ELSE /\ th' = [th EXCEPT ![t].pc = "fn"]
                /\ UNCHANGED <<ret, loss, nodes, last>>
    /\ UNCHANGED <<ret, loss, cache, shape_cache_size, dynamic_mode, workers>>

\* GetOpShape catching the failure of shape_fn and caching Shape() for the
\* key.
CallShapeFn_CachesFailure(t) ==
    /\ th[t].pc = "fn"
    /\ LET n == th[t].node
           r == ShapeFn(nodes, n)
       IN  IF r.ok
           THEN /\ th' = [th EXCEPT ![t].pc = "add", ![t].result = r.shape,
                                     ![t].calls = @ + 1]
                /\ UNCHANGED <<ret, loss, nodes, cache, last>>
           ELSE /\ th' = [th EXCEPT ![t] = Idle]
                /\ nodes' = [nodes EXCEPT ![n].state = "live"]
                /\ cache' = {e \in cache : e.key # NodeHash(nodes, n)}
                               \cup {[key |-> NodeHash(nodes, n), value |-> DefaultShape]}
                /\ last' = Finished(t, "failed", nodes[n].shape_, th[t].calls + 1)
    /\ UNCHANGED <<ret, loss, shape_cache_size, dynamic_mode, workers>>

\* GetOpShape: shape_fn() is evaluated; a failure leaves GetOpShape by
\* exception, and a constructor that was running it never finishes.
CallShapeFn(t) ==
    /\ th[t].pc = "fn"
    /\ LET n == th[t].node
           r == ShapeFn(nodes, n)
       IN  IF r.ok
           THEN /\ th' = [th EXCEPT ![t].pc = "add", ![t].result = r.shape,
                                     ![t].calls = @ + 1]
                /\ UNCHANGED <<ret, loss, nodes, last>>
           ELSE /\ th' = [th EXCEPT ![t] = Idle]
                /\ nodes' = [nodes EXCEPT ![n].state =
                                IF @ = "constructing" THEN "dead" ELSE @]
                /\ last' = Finished(t, "failed", nodes[n].shape_, th[t].calls + 1)
    /\ UNCHANGED <<ret, loss, cache, shape_cache_size, dynamic_mode, workers>>

\* GetOpShape returning the computed shape without adding it to the cache.
Add_NoInsert(t) ==
    /\ th[t].pc = "add"
    /\ LET n == th[t].node
       IN  /\ nodes' = [nodes EXCEPT ![n].shape_ = th[t].result, ![n].state = "live"]
           /\ last' = Finished(t, "miss", th[t].result, th[t].calls)
    /\ th' = [th EXCEPT ![t] = Idle]
    /\ UNCHANGED <<ret, loss, cache, shape_cache_size, dynamic_mode, workers>>

\* GetOpShape: shape_cache->Add(hash(), result); the node takes what Add
\* returns.
Add(t) ==
    /\ th[t].pc = "add"
    /\ LET n == th[t].node
       IN  \E a \in CacheAdd(cache, shape_cache_size, NodeHash(nodes, n), th[t].result) :
              /\ cache' = a.cache
              /\ nodes' = [nodes EXCEPT ![n].shape_ = a.stored, ![n].state = "live"]
              /\ last' = Finished(t, "miss", a.stored, th[t].calls)
    /\ th' = [th EXCEPT ![t] = Idle]
    /\ UNCHANGED <<ret, loss, shape_cache_size, dynamic_mode, workers>>

Next ==
    \/ \E op \in TraceOps, s \in TraceShapes, seed \in TraceSeeds : CtorLeaf(op, s, 1, seed)
    \/ \E op \in TraceOps, os \in TraceOperandLists, seed \in TraceSeeds :
          CtorNoShape(op, os, 1, seed)
    \/ \E t \in Threads, op \in TraceOps, os \in TraceOperandLists, seed \in TraceSeeds :
          CtorShapeFn(t, op, os, 1, seed)
    \/ \E t \in Threads, n \in NodeIds : SetShapeDeferred(t, n)
    \/ \E t \in Threads : Get(t)
    \/ \E t \in Threads : CallShapeFn(t)
    \/ \E t \in Threads : Add(t)

Spec == Init /\ [][Next]_vars

\* Trace construction alone, over the wider alphabets: the runs that decide
\* what the hashes of constructed nodes are.
HashInit ==
    /\ nodes = <<>>
    /\ cache = {}
    /\ shape_cache_size = MaxCacheSize
    /\ dynamic_mode \in BOOLEAN
    /\ workers = Threads
    /\ th = [t \in Threads |-> Idle]
    /\ last = NoCall
    /\ ret = NoRet
    /\ loss = NoLoss

HashNext ==
    \/ \E op \in TraceOps, s \in TraceShapes, seed \in TraceSeeds : CtorLeaf(op, s, 1, seed)
    \/ \E os \in OpSeeds, operands \in OperandLists :
          CtorShape(os[1], operands, nodes[operands[1]].shape_, 1, os[2])

HashSpec == HashInit /\ [][HashNext]_vars

\* ------------------------------------------------------------ leaf nodes
\* The shapes of the leaf nodes whose hashes are compared: two of rank 1
\* that differ in a dimension, one of rank 2, and one of rank 1 with
\* another element type.
LeafHashShapes ==
    LeafShapes \cup {[LeafShape(<<2>>) EXCEPT !.element_type = 5]}

\* Leaf nodes alone, over every operation, seed and shape.
LeafNext ==
    \E os \in OpSeeds, s \in LeafHashShapes : CtorLeaf(os[1], s, 1, os[2])

LeafSpec == HashInit /\ [][LeafNext]_vars

\* --------------------------------------------------------- cache capacity
\* The default of LTC_IR_SHAPE_CACHE_SIZE.
DefaultShapeCacheSize == 4096

\* What the environment holds for LTC_IR_SHAPE_CACHE_SIZE: nothing, or a
\* capacity.
EnvValues ==
    {[set |-> FALSE, value |-> 0]} \cup {[set |-> TRUE, value |-> v] : v \in 1..MaxCacheSize}

\* sys_util::GetEnvInt(name, defval) for an environment holding `env`.
GetEnvInt(env, defval) == IF env.set THEN env.value ELSE defval

\* GetShapeCache(): the capacity is read when the cache is created, on first
\* use, and the cache is empty. Shapes are static, so that nodes over
\* tensors of different dimensions have different keys.
CacheInit ==
    /\ nodes = <<>>
    /\ cache = {}
    /\ shape_cache_size \in {GetEnvInt(env, DefaultShapeCacheSize) : env \in EnvValues}
    /\ dynamic_mode = FALSE
    /\ workers \in {{1}, Threads}
    /\ th = [t \in Threads |-> Idle]
    /\ last = NoCall
    /\ ret = NoRet
    /\ loss = NoLoss

CacheSpec == CacheInit /\ [][Next]_vars

\* ------------------------------------------------- concrete node variants
\* Nodes of concrete variants built in one run, over the two input tensors.
MaxVariantNodes == 3

\* The concrete variants: backward passes of a loss, of log-softmax and of
\* max-unpooling, each a TsNode with one operation-specific scalar parameter.
Variants == {"BinaryCrossEntropyBackward", "TSLogSoftmaxBackward", "MaxUnpoolNdBackward"}

\* The OpKind hash of each variant.
VariantOp(v) ==
    CASE v = "BinaryCrossEntropyBackward" -> 3
      [] v = "TSLogSoftmaxBackward" -> 4
      [] v = "MaxUnpoolNdBackward" -> 5

\* The scalar parameter of each variant: reduction_ (ReductionMode kMean,
\* kSum), dim_, output_size_.
VariantParams(v) ==
    CASE v = "BinaryCrossEntropyBackward" -> {1, 2}
      [] v = "TSLogSoftmaxBackward" -> {0, 1}
      [] v = "MaxUnpoolNdBackward" -> {<<2>>, <<3>>}

\* The hash seed a variant computes over its scalar parameter.
ParamSeed(v, param) ==
    CASE v = "BinaryCrossEntropyBackward" -> 20 + param
      [] v = "TSLogSoftmaxBackward" -> 30 + param
      [] v = "MaxUnpoolNdBackward" -> 40 + param[1]

\* The operand lists a variant is built over, the inputs being nodes 1 and
\* 2: three Values, and for BinaryCrossEntropyBackward the optional weight.
VariantOperandLists(v) ==
    {<<1, 1, 1>>, <<2, 1, 1>>, <<1, 2, 1>>}
        \cup (IF v = "BinaryCrossEntropyBackward" THEN {<<1, 1, 1, 2>>} ELSE {})

\* A node of variant v: a TsNode with one output whose shape is deferred,
\* carrying the scalar parameter.
VariantNode(v, operands, param) ==
    OpNode(VariantOp(v), operands, DefaultShape, 1, ParamSeed(v, param), "live")
        @@ [variant |-> v, param |-> param]

IsVariant(node) == "variant" \in DOMAIN node

\* The constructor of variant v.
CtorVariant(v, operands, param) ==
    /\ Len(nodes) < 2 + MaxVariantNodes
    /\ nodes' = Append(nodes, VariantNode(v, operands, param))
    /\ UNCHANGED <<ret, loss, cache, shape_cache_size, dynamic_mode, workers, th, last>>

\* Clone copying the node and replacing its operand list, the hashes kept.
Clone_KeepsHashes(n, new_operands) ==
    /\ Len(nodes) < 2 + MaxVariantNodes
    /\ IsVariant(nodes[n])
    /\ nodes' = Append(nodes, [nodes[n] EXCEPT !.operands = new_operands])
    /\ ret' = [fn |-> "Clone", node |-> n, operands |-> new_operands,
               result |-> Len(nodes) + 1]
    /\ UNCHANGED <<loss, cache, shape_cache_size, dynamic_mode, workers, th, last>>

\* Clone(new_operands) on node n: a new node of the same variant and scalar
\* parameter, constructed over new_operands.
Clone(n, new_operands) ==
    /\ Len(nodes) < 2 + MaxVariantNodes
    /\ IsVariant(nodes[n])
    /\ nodes' = Append(nodes, VariantNode(nodes[n].variant, new_operands,
                                          nodes[n].param))
    /\ ret' = [fn |-> "Clone", node |-> n, operands |-> new_operands,
               result |-> Len(nodes) + 1]
    /\ UNCHANGED <<loss, cache, shape_cache_size, dynamic_mode, workers, th, last>>

\* The two input tensors exist; variants are built over them and cloned.
CloneInit ==
    /\ cache = {}
    /\ shape_cache_size = MaxCacheSize
    /\ dynamic_mode \in BOOLEAN
    /\ nodes = <<LeafNode(1, LeafShape(<<2>>), 1, 10),
                 LeafNode(1, LeafShape(<<3>>), 1, 10)>>
    /\ workers = Threads
    /\ th = [t \in Threads |-> Idle]
    /\ last = NoCall
    /\ ret = NoRet
    /\ loss = NoLoss

CloneNext ==
    \/ \E v \in Variants : \E os \in VariantOperandLists(v), p \in VariantParams(v) :
          CtorVariant(v, os, p)
    \/ \E n \in NodeIds : IsVariant(nodes[n]) /\
          \E os \in VariantOperandLists(nodes[n].variant) : Clone(n, os)

CloneSpec == CloneInit /\ [][CloneNext]_vars

\* ------------------------------------------------------------- accessors
\* A tuple Shape: the shapes of the outputs of a multi-output node.
TupleShape(shapes) == [element_type |-> 13, dimensions |-> <<>>, tuple_shapes |-> shapes]

\* shape.IsTuple()
IsTuple(shape) == shape.element_type = 13

\* shape.tuple_shapes(index): the index-th element, counted from 0.
TupleShapes(shape, index) ==
    IF index < Len(shape.tuple_shapes)
    THEN [ok |-> TRUE, shape |-> shape.tuple_shapes[index + 1]]
    ELSE [ok |-> FALSE, error |-> "IndexOutOfRange"]

\* The output indices handed to the accessors (size_t).
Indices == 0..3

\* The operations applied where accessors are exercised are unary.
AccessArities == {1}

\* dynamic_cast<const TsNode*>: the node has the TsNode part, with shape_.
IsTsNode(node) == "shape_" \in DOMAIN node

\* Operand lists over the single-tensor TsNode leaves.
AccessOperandLists ==
    ListsOver({n \in NodeIds : /\ IsTsNode(nodes[n])
                               /\ nodes[n].operands = <<>>
                               /\ ~IsTuple(nodes[n].shape_)}, AccessArities)

\* A node of another backend: the Node base without the TsNode part.
ForeignNode(op, num_outputs, hash_seed) ==
    [op |-> op, operands |-> <<>>, num_outputs |-> num_outputs,
     node_hash |-> HashCombine(OpHash(op), SeedHash(hash_seed)),
     dag_hash |-> HashCombine(OpHash(op), SeedHash(hash_seed))]

\* What a call hands back: its value, or the error it raised.
Handed(fn, n, index, r) == [fn |-> fn, node |-> n, index |-> index] @@ r

\* TsNode::shape() without regard to whether the shape was set.
TsNodeShape(node) == [ok |-> TRUE, shape |-> node.shape_]

\* TsNode::shape(output_index) without the LTC_CHECK_EQ.
TsNodeShapeAt_Unchecked(node, output_index) ==
    IF IsTuple(node.shape_) THEN TupleShapes(node.shape_, output_index)
    ELSE [ok |-> TRUE, shape |-> node.shape_]

\* TsNode::shape(output_index)
TsNodeShapeAt(node, output_index) ==
    IF IsTuple(node.shape_) THEN TupleShapes(node.shape_, output_index)
    ELSE IF output_index # 0 THEN [ok |-> FALSE, error |-> "InvalidArgument"]
    ELSE [ok |-> TRUE, shape |-> node.shape_]

\* The failed dynamic_cast of the backend-specific accessors.
NotTsNode == [ok |-> FALSE, error |-> "runtime_error"]

\* A caller reads node.shape().
CallShape(n) ==
    /\ IsTsNode(nodes[n])
    /\ nodes[n].state = "live"
    /\ ret' = Handed("shape", n, 0, TsNodeShape(nodes[n]))
    /\ UNCHANGED <<loss, nodes, cache, shape_cache_size, dynamic_mode, workers, th, last>>

\* A caller reads node.shape(output_index).
CallShapeAt(n, output_index) ==
    /\ IsTsNode(nodes[n])
    /\ nodes[n].state = "live"
    /\ ret' = Handed("shape_at", n, output_index, TsNodeShapeAt(nodes[n], output_index))
    /\ UNCHANGED <<loss, nodes, cache, shape_cache_size, dynamic_mode, workers, th, last>>

\* GetShapeFromTsOutput(output), output = {node n, index}
GetShapeFromTsOutput(n, index) ==
    /\ IsTsNode(nodes[n]) => nodes[n].state = "live"
    /\ ret' = Handed("GetShapeFromTsOutput", n, index,
                     IF IsTsNode(nodes[n]) THEN TsNodeShapeAt(nodes[n], index)
                     ELSE NotTsNode)
    /\ UNCHANGED <<loss, nodes, cache, shape_cache_size, dynamic_mode, workers, th, last>>

\* GetShapeFromTsValue(value), value = {node n, index}
GetShapeFromTsValue(n, index) ==
    /\ IsTsNode(nodes[n]) => nodes[n].state = "live"
    /\ ret' = Handed("GetShapeFromTsValue", n, index,
                     IF IsTsNode(nodes[n]) THEN TsNodeShapeAt(nodes[n], index)
                     ELSE NotTsNode)
    /\ UNCHANGED <<loss, nodes, cache, shape_cache_size, dynamic_mode, workers, th, last>>

\* GetShapeFromTsNode(node)
GetShapeFromTsNode(n) ==
    /\ IsTsNode(nodes[n]) => nodes[n].state = "live"
    /\ ret' = Handed("GetShapeFromTsNode", n, 0,
                     IF IsTsNode(nodes[n]) THEN TsNodeShape(nodes[n])
                     ELSE NotTsNode)
    /\ UNCHANGED <<loss, nodes, cache, shape_cache_size, dynamic_mode, workers, th, last>>

\* TsNodeSetShapeDeferred returning normally when the cast fails.
TsNodeSetShapeDeferred_Silent(t, n) ==
    IF IsTsNode(nodes[n])
    THEN SetShapeDeferred(t, n)
    ELSE /\ ret' = Handed("TsNodeSetShapeDeferred", n, 0, [ok |-> TRUE])
         /\ UNCHANGED <<loss, nodes, cache, shape_cache_size, dynamic_mode, workers, th, last>>

\* TsNodeSetShapeDeferred(node, shape_fn): SetShapeDeferred on a TsNode, a
\* runtime_error on any other node.
TsNodeSetShapeDeferred(t, n) ==
    IF IsTsNode(nodes[n])
    THEN SetShapeDeferred(t, n)
    ELSE /\ ret' = Handed("TsNodeSetShapeDeferred", n, 0, NotTsNode)
         /\ UNCHANGED <<loss, nodes, cache, shape_cache_size, dynamic_mode, workers, th, last>>

\* The trace holds a tensor, a node with three outputs and a node of another
\* backend; one thread applies operations to the tensor and reads shapes
\* through the accessors.
AccessInit ==
    /\ cache = {}
    /\ shape_cache_size = MaxCacheSize
    /\ dynamic_mode \in BOOLEAN
    /\ nodes = <<LeafNode(1, LeafShape(<<2>>), 1, 10),
                 LeafNode(1, TupleShape(<<LeafShape(<<2>>), LeafShape(<<3>>),
                                          LeafShape(<<2, 2>>)>>), 3, 10),
                 ForeignNode(2, 1, 10)>>
    /\ workers = {1}
    /\ th = [t \in Threads |-> Idle]
    /\ last = NoCall
    /\ ret = NoRet
    /\ loss = NoLoss

AccessNext ==
    \/ \E os \in AccessOperandLists : CtorNoShape(1, os, 1, 10)
    \/ \E n \in NodeIds : CallShape(n)
    \/ \E n \in NodeIds, i \in Indices : CallShapeAt(n, i)
    \/ \E n \in NodeIds, i \in Indices : GetShapeFromTsOutput(n, i)
    \/ \E n \in NodeIds, i \in Indices : GetShapeFromTsValue(n, i)
    \/ \E n \in NodeIds : GetShapeFromTsNode(n)
    \/ \E t \in Threads, n \in NodeIds : TsNodeSetShapeDeferred(t, n)
    \/ \E t \in Threads : Get(t)
    \/ \E t \in Threads : CallShapeFn(t)
    \/ \E t \in Threads : Add(t)

AccessSpec == AccessInit /\ [][AccessNext]_vars

\* ---------------------------------------------------------- loss functions
\* at::Reduction
Reductions == {"None", "Mean", "Sum"}

\* The delta and beta arguments (double), negative, zero and positive.
LossParams == {-2, -1, 0, 1, 2}

\* The input and target tensors, as the sequences of their elements.
LossInputs ==
    {[input |-> <<1>>, target |-> <<0>>],
     [input |-> <<1, 3>>, target |-> <<2, 0>>],
     [input |-> <<0, 0>>, target |-> <<0, 0>>]}

\* What the out tensor `result` holds before a call.
OldResult == [kind |-> "old"]

\* No tensor: a function that raised returns none.
NoTensor == [kind |-> "none"]

\* What a kernel stub leaves in its output: the elementwise loss of input
\* and target, `param` being delta or beta (0 for l1).
Kernel(stub, input, target, param) ==
    [kind |-> stub, input |-> input, target |-> target, param |-> param]

\* tensor.mean() and tensor.sum()
Reduced(how, tensor) == [kind |-> how, of |-> tensor]

\* apply_loss_reduction(unreduced, reduction)
apply_loss_reduction(unreduced, reduction) ==
    IF reduction = "Mean" THEN Reduced("mean", unreduced)
    ELSE IF reduction = "Sum" THEN Reduced("sum", unreduced)
    ELSE unreduced

\* A failed TORCH_CHECK: nothing has run, `result` is as it was.
CheckFailed(result) ==
    [ok |-> FALSE, error |-> "TORCH_CHECK", events |-> <<>>, result |-> result]

\* l1_loss_out(input, target, reduction, result), real-valued tensors: the
\* stub writes into result, or into a temporary that is then reduced and
\* copied into the resized result.
l1_loss_out(input, target, reduction, result) ==
    IF reduction # "None"
    THEN [ok |-> TRUE, error |-> "none",
          events |-> <<"l1_stub", "resize_output", "copy_">>,
          result |-> apply_loss_reduction(Kernel("l1_stub", input, target, 0), reduction)]
    ELSE [ok |-> TRUE, error |-> "none", events |-> <<"l1_stub">>,
          result |-> Kernel("l1_stub", input, target, 0)]

\* smooth_l1_loss_out(input, target, reduction, beta, result)
smooth_l1_loss_out(input, target, reduction, beta, result) ==
    IF ~(beta >= 0) THEN CheckFailed(result)
    ELSE IF beta = 0 THEN l1_loss_out(input, target, reduction, result)
    ELSE IF reduction # "None"
    THEN [ok |-> TRUE, error |-> "none",
          events |-> <<"resize_output", "smooth_l1_stub", "copy_">>,
          result |-> apply_loss_reduction(Kernel("smooth_l1_stub", input, target, beta),
                                          reduction)]
    ELSE [ok |-> TRUE, error |-> "none", events |-> <<"smooth_l1_stub">>,
          result |-> Kernel("smooth_l1_stub", input, target, beta)]

\* huber_loss(input, target, reduction, delta): the loss is computed into a
\* new tensor, and the reduction of it is returned.
huber_loss(input, target, reduction, delta) ==
    IF ~(delta > 0) THEN CheckFailed(NoTensor)
    ELSE [ok |-> TRUE, error |-> "none", events |-> <<"huber_stub">>,
          result |-> apply_loss_reduction(Kernel("huber_stub", input, target, delta),
                                          reduction)]

\* huber_loss_out with the check delta >= 0.
huber_loss_out_Nonnegative(input, target, reduction, delta, result) ==
    IF ~(delta >= 0) THEN CheckFailed(result)
    ELSE IF reduction # "None"
    THEN [ok |-> TRUE, error |-> "none",
          events |-> <<"huber_stub", "resize_", "copy_">>,
          result |-> apply_loss_reduction(Kernel("huber_stub", input, target, delta),
                                          reduction)]
    ELSE [ok |-> TRUE, error |-> "none", events |-> <<"huber_stub">>,
          result |-> Kernel("huber_stub", input, target, delta)]

\* huber_loss_out(input, target, reduction, delta, result): the stub writes
\* into result, which a reduction then replaces.
huber_loss_out(input, target, reduction, delta, result) ==
    IF ~(delta > 0) THEN CheckFailed(result)
    ELSE IF reduction # "None"
    THEN [ok |-> TRUE, error |-> "none",
          events |-> <<"huber_stub", "resize_", "copy_">>,
          result |-> apply_loss_reduction(Kernel("huber_stub", input, target, delta),
                                          reduction)]
    ELSE [ok |-> TRUE, error |-> "none", events |-> <<"huber_stub">>,
          result |-> Kernel("huber_stub", input, target, delta)]

\* The arguments of a call, kept with what it did.
LossCall(fn, io, reduction, param) ==
    [fn |-> fn, input |-> io.input, target |-> io.target,
     reduction |-> reduction, param |-> param]

CallSmoothL1LossOut(io, reduction, beta) ==
    /\ loss' = LossCall("smooth_l1_loss_out", io, reduction, beta)
                  @@ smooth_l1_loss_out(io.input, io.target, reduction, beta, OldResult)
    /\ UNCHANGED <<ret, nodes, cache, shape_cache_size, dynamic_mode, workers, th, last>>

CallHuberLoss(io, reduction, delta) ==
    /\ loss' = LossCall("huber_loss", io, reduction, delta)
                  @@ huber_loss(io.input, io.target, reduction, delta)
    /\ UNCHANGED <<ret, nodes, cache, shape_cache_size, dynamic_mode, workers, th, last>>

CallHuberLossOut(io, reduction, delta) ==
    /\ loss' = LossCall("huber_loss_out", io, reduction, delta)
                  @@ huber_loss_out(io.input, io.target, reduction, delta, OldResult)
    /\ UNCHANGED <<ret, nodes, cache, shape_cache_size, dynamic_mode, workers, th, last>>

LossNext ==
    \E io \in LossInputs, reduction \in Reductions, param \in LossParams :
        \/ CallSmoothL1LossOut(io, reduction, param)
        \/ CallHuberLoss(io, reduction, param)
        \/ CallHuberLossOut(io, reduction, param)

\* Calls of the loss functions; no trace is built.
LossSpec == HashInit /\ [][LossNext]_vars

\* ------------------------------------------------------------------ claims
\* The nodes built with an operand list.
OpNodeIds == {n \in NodeIds : nodes[n].operands # <<>>}

\* The hash() of each operand of node n, in operand order.
OperandDagHashes(n) ==
    [i \in 1..Len(nodes[n].operands) |-> nodes[nodes[n].operands[i]].dag_hash]

\* C1: a deferred resolution looks hash() up in the ShapeCache. With the key
\* present the node adopts the cached Shape and shape_fn is not reached.
\* With the key absent shape_fn is invoked, once; its result becomes the
\* node's shape and is the cache's entry under hash() after the Add.
C1_GetOpShape ==
    [][\A t \in Threads :
          LET n == th[t].node
              key == NodeHash(nodes, n)
          IN  /\ (th[t].pc = "get" /\ th'[t].pc # "get") =>
                    IF CacheHas(cache, key)
                    THEN /\ th'[t].pc = "idle"
                         /\ th[t].calls = 0
                         /\ nodes'[n].shape_ = CacheValue(cache, key)
                         /\ cache' = cache
                    ELSE /\ th'[t].pc = "fn"
                         /\ nodes'[n].shape_ = nodes[n].shape_
              /\ (th[t].pc = "fn" /\ th'[t].pc # "fn" /\ ShapeFn(nodes, n).ok) =>
                    /\ th[t].calls = 0
                    /\ th'[t].pc = "add"
                    /\ th'[t].calls = 1
                    /\ th'[t].result = ShapeFn(nodes, n).shape
              /\ (th[t].pc = "add" /\ th'[t].pc # "add" /\ ~CacheHas(cache, key)) =>
                    /\ th'[t].pc = "idle"
                    /\ th[t].calls = 1
                    /\ nodes'[n].shape_ = th[t].result
                    /\ CacheHas(cache', key)
                    /\ CacheValue(cache', key) = th[t].result
      ]_vars

\* A hit has just given a node the shape that an earlier miss on another
\* node of the same hash computed and cached.
C1_Witness ==
    /\ last.valid
    /\ last.outcome = "hit"
    /\ last.calls = 0
    /\ CacheHas(cache, last.key)
    /\ nodes[last.node].shape_ = CacheValue(cache, last.key)
    /\ \E m \in OpNodeIds : m # last.node /\ nodes[m].dag_hash = last.key

\* C2 as stated: whenever a node adopts a Shape from the ShapeCache, that
\* Shape is the one the node's own shape_fn would have returned.
C2_AdoptedShapeIsOwn ==
    [][\A t \in Threads :
          (th[t].pc = "get" /\ th'[t].pc = "idle") =>
              /\ ShapeFn(nodes, th[t].node).ok
              /\ nodes'[th[t].node].shape_ = ShapeFn(nodes, th[t].node).shape
      ]_vars

\* C3 as stated: when the resolutions of two nodes of one hash overlap, then
\* however their Get, shape_fn and Add steps interleave, once both have
\* finished the two nodes have equal shapes, and what the cache holds for
\* the hash is that shape.
C3_RacingResolutionsAgree ==
    [][\A t \in Threads :
          LET n == th[t].node
              m == th[t].peer
              key == NodeHash(nodes, n)
          IN  (/\ th[t].pc \in {"get", "add"}
               /\ th'[t].pc = "idle"
               /\ m # 0
               /\ \A u \in Threads \ {t} : th[u].pc # "idle" => th[u].node # m
               /\ Complete(nodes, m))
              => /\ nodes'[n].shape_ = nodes'[m].shape_
                 /\ CacheHas(cache', key) => CacheValue(cache', key) = nodes'[n].shape_
      ]_vars

\* C4: in a single-threaded run, a resolution that follows one that obtained
\* a shape for the same hash is a hit: shape_fn is invoked at most once
\* across the two calls, and the second call's shape is the first's.
C4_SequentialIdempotent ==
    [][\A t \in Threads :
          (/\ workers = {t}
           /\ th[t].pc # "idle"
           /\ th'[t].pc = "idle"
           /\ last.valid
           /\ last.outcome \in {"hit", "miss"}
           /\ last.key = NodeHash(nodes, th[t].node))
          => /\ last'.outcome = "hit"
             /\ last.calls + last'.calls <= 1
             /\ last'.shape = last.shape
             /\ nodes'[th[t].node].shape_ = last.shape
      ]_vars

\* The second of two sequential calls on different nodes of one hash has
\* finished, with the shape the first node has.
C4_Witness ==
    /\ workers = {1}
    /\ last.valid
    /\ last.outcome = "hit"
    /\ \E m \in OpNodeIds :
          /\ m # last.node
          /\ nodes[m].dag_hash = last.key
          /\ nodes[m].shape_ = nodes[last.node].shape_
          /\ nodes[m].shape_ # DefaultShape

\* C5: when shape_fn fails, GetOpShape is left at once: the cache and the
\* node's shape stay as they were, the caller sees the failure, and a
\* constructor running it does not produce a node. In a single-threaded run
\* the next resolution for the same hash misses and invokes shape_fn again.
C5_FailureNotCached ==
    [][\A t \in Threads :
          LET n == th[t].node
              key == NodeHash(nodes, n)
          IN  /\ (th[t].pc = "fn" /\ th'[t].pc # "fn" /\ ~ShapeFn(nodes, n).ok) =>
                    /\ th'[t].pc = "idle"
                    /\ cache' = cache
                    /\ nodes'[n].shape_ = nodes[n].shape_
                    /\ nodes[n].state = "constructing" => nodes'[n].state = "dead"
                    /\ workers = {t} => last'.outcome = "failed"
              /\ (/\ workers = {t}
                  /\ th[t].pc = "get"
                  /\ th'[t].pc # "get"
                  /\ last.valid
                  /\ last.outcome = "failed"
                  /\ last.key = key)
                 => th'[t].pc = "fn"
      ]_vars

\* After a failed resolution that left a non-empty cache as it was, the next
\* resolution for the same hash has missed and is about to invoke shape_fn.
C5_Witness ==
    /\ cache # {}
    /\ last.valid
    /\ last.outcome = "failed"
    /\ \E t \in Threads :
          /\ th[t].pc = "fn"
          /\ NodeHash(nodes, th[t].node) = last.key

\* C6 as stated: once a node's shape has been set, no later step changes it.
C6_ShapeSetOnce ==
    [][\A n \in NodeIds :
          nodes[n].shape_ # DefaultShape => nodes'[n].shape_ = nodes[n].shape_
      ]_vars

\* C7 as stated: node_hash = combine(hash(op), extra_seed) and
\* dag_hash = combine(node_hash, F), F the left fold over the operands
\* seeded with node_hash.
C7_DagHashAsStated ==
    \A n \in OpNodeIds :
        LET hs == OperandDagHashes(n)
            F[k \in 0..Len(hs)] ==
                IF k = 0 THEN nodes[n].node_hash ELSE HashCombine(F[k - 1], hs[k])
        IN  /\ nodes[n].node_hash =
                   HashCombine(OpHash(nodes[n].op), SeedHash(nodes[n].hash_seed))
            /\ nodes[n].dag_hash = HashCombine(nodes[n].node_hash, F[Len(hs)])

\* C7 amended: node_hash = combine(hash(op), extra_seed), and dag_hash is
\* the left fold F itself (seed node_hash, step acc -> combine(acc, operand
\* dag hash)), with no further combine; hash() returns dag_hash.
C7_DagHashIsFold ==
    \A n \in OpNodeIds :
        LET hs == OperandDagHashes(n)
            F[k \in 0..Len(hs)] ==
                IF k = 0 THEN nodes[n].node_hash ELSE HashCombine(F[k - 1], hs[k])
        IN  /\ nodes[n].node_hash =
                   HashCombine(OpHash(nodes[n].op), SeedHash(nodes[n].hash_seed))
            /\ nodes[n].dag_hash = F[Len(hs)]
            /\ NodeHash(nodes, n) = nodes[n].dag_hash

\* A node over two operands with different hashes, itself the operand of a
\* further node.
C7_Witness ==
    \E n, m \in OpNodeIds :
        /\ Len(nodes[n].operands) = 2
        /\ OperandDagHashes(n)[1] # OperandDagHashes(n)[2]
        /\ \E i \in 1..Len(nodes[m].operands) : nodes[m].operands[i] = n

\* C8: two nodes with the same OpKind, the same seed and operand lists
\* whose operands have pairwise equal dag hashes, in order, have equal
\* hash().
C8_EqualInputsEqualHash ==
    \A n, m \in OpNodeIds :
        (/\ nodes[n].op = nodes[m].op
         /\ nodes[n].hash_seed = nodes[m].hash_seed
         /\ OperandDagHashes(n) = OperandDagHashes(m))
        => NodeHash(nodes, n) = NodeHash(nodes, m)

\* B = op(A, A) and an independently built B' = op(A', A'), where A and A'
\* are distinct nodes of equal hash.
C8_Witness ==
    \E n, m \in OpNodeIds :
        /\ n # m
        /\ nodes[n].op = nodes[m].op
        /\ nodes[n].hash_seed = nodes[m].hash_seed
        /\ Len(nodes[n].operands) = 2
        /\ nodes[n].operands[1] = nodes[n].operands[2]
        /\ OperandDagHashes(n) = OperandDagHashes(m)
        /\ nodes[n].operands[1] # nodes[m].operands[1]

\* One operand list is the other reordered.
IsReordering(hs, gs) ==
    /\ Len(hs) = Len(gs)
    /\ \E p \in Permutations(1..Len(hs)) : \A i \in 1..Len(hs) : gs[i] = hs[p[i]]

\* C9: two nodes with the same OpKind and seed whose operand lists are
\* reorderings of each other, with operands of different dag hashes at some
\* position, have different hash().
C9_OrderSensitive ==
    \A n, m \in OpNodeIds :
        (/\ nodes[n].op = nodes[m].op
         /\ nodes[n].hash_seed = nodes[m].hash_seed
         /\ IsReordering(OperandDagHashes(n), OperandDagHashes(m))
         /\ OperandDagHashes(n) # OperandDagHashes(m))
        => NodeHash(nodes, n) # NodeHash(nodes, m)

\* op(A, B) and op(B, A) over operands A, B of different hashes.
C9_Witness ==
    \E n, m \in OpNodeIds :
        /\ nodes[n].op = nodes[m].op
        /\ nodes[n].hash_seed = nodes[m].hash_seed
        /\ Len(nodes[n].operands) = 2
        /\ Len(nodes[m].operands) = 2
        /\ nodes[m].operands = <<nodes[n].operands[2], nodes[n].operands[1]>>
        /\ OperandDagHashes(n)[1] # OperandDagHashes(n)[2]

\* C10: for nodes built with operands, the same op and seed give the same
\* node_hash whatever the operand lists are; a different seed gives a
\* different node_hash, and a different hash() over the same operands.
C10_NodeHashOpAndSeedOnly ==
    \A n, m \in OpNodeIds :
        nodes[n].op = nodes[m].op =>
            IF nodes[n].hash_seed = nodes[m].hash_seed
            THEN nodes[n].node_hash = nodes[m].node_hash
            ELSE /\ nodes[n].node_hash # nodes[m].node_hash
                 /\ OperandDagHashes(n) = OperandDagHashes(m)
                       => NodeHash(nodes, n) # NodeHash(nodes, m)

\* Two nodes of one op and seed over operand lists of different hashes, and
\* a third of the same op over the first one's operands with another seed.
C10_Witness ==
    \E n, m, k \in OpNodeIds :
        /\ nodes[n].op = nodes[m].op
        /\ nodes[n].hash_seed = nodes[m].hash_seed
        /\ OperandDagHashes(n) # OperandDagHashes(m)
        /\ nodes[k].op = nodes[n].op
        /\ nodes[k].hash_seed # nodes[n].hash_seed
        /\ nodes[k].operands = nodes[n].operands

\* C11: Clone(new_operands) on a node yields a node of the same variant with
\* the same num_outputs and the same scalar parameter, over new_operands;
\* its node_hash is the original's, and its dag_hash is that of every node
\* of that variant and parameter constructed with new_operands.
C11_Clone ==
    ret.fn = "Clone" =>
        LET n == nodes[ret.node]
            c == nodes[ret.result]
        IN  /\ IsVariant(c)
            /\ c.variant = n.variant
            /\ c.num_outputs = n.num_outputs
            /\ c.param = n.param
            /\ c.operands = ret.operands
            /\ c.node_hash = n.node_hash
            /\ \A m \in NodeIds \ {ret.result} :
                  (/\ IsVariant(nodes[m])
                   /\ nodes[m].variant = c.variant
                   /\ nodes[m].param = c.param
                   /\ nodes[m].operands = ret.operands)
                  => nodes[m].dag_hash = c.dag_hash

\* The first variant node was constructed over some operands; a later node
\* of the same variant and parameter, over operands of other hashes, has
\* been cloned with the first one's operand list.
C11_Witness ==
    /\ ret.fn = "Clone"
    /\ ret.node > 3
    /\ ret.result > ret.node
    /\ nodes[3].variant = nodes[ret.node].variant
    /\ nodes[3].param = nodes[ret.node].param
    /\ nodes[3].operands = ret.operands
    /\ nodes[3].dag_hash = nodes[ret.result].dag_hash
    /\ nodes[ret.node].dag_hash # nodes[ret.result].dag_hash

\* C12: shape(index) on a node whose stored shape is a tuple returns the
\* index-th element for every index below the tuple's arity and fails with
\* IndexOutOfRange for any index at or above it; on a node whose stored
\* shape is not a tuple it returns the shape when index = 0 and fails with
\* InvalidArgument for every other index.
C12_ShapeAt ==
    [][(ret' # ret /\ ret'.fn = "shape_at") =>
          LET s == nodes[ret'.node].shape_
              i == ret'.index
          IN  IF IsTuple(s)
              THEN IF i < Len(s.tuple_shapes)
                   THEN ret'.ok /\ ret'.shape = s.tuple_shapes[i + 1]
                   ELSE ~ret'.ok /\ ret'.error = "IndexOutOfRange"
              ELSE IF i = 0
                   THEN ret'.ok /\ ret'.shape = s
                   ELSE ~ret'.ok /\ ret'.error = "InvalidArgument"
      ]_vars

\* shape(1) has just failed with InvalidArgument on a node whose shape is
\* one tensor, in a trace that also holds a node with three outputs.
C12_Witness ==
    /\ ret.fn = "shape_at"
    /\ ret.index = 1
    /\ ~ret.ok
    /\ ret.error = "InvalidArgument"
    /\ ~IsTuple(nodes[ret.node].shape_)
    /\ \E m \in NodeIds : IsTsNode(nodes[m]) /\ nodes[m].num_outputs = 3

\* C13 as stated: shape() returns the node's own Shape when one has been
\* set, and reports an error on a node whose shape has not yet been set.
C13_ShapeErrorsIfUnset ==
    [][(ret' # ret /\ ret'.fn = "shape") =>
          IF nodes[ret'.node].shape_ = DefaultShape
          THEN ~ret'.ok
          ELSE ret'.ok /\ ret'.shape = nodes[ret'.node].shape_
      ]_vars

\* The functions that reach a TsNode through a dynamic cast.
TsAccessors ==
    {"GetShapeFromTsOutput", "GetShapeFromTsValue", "GetShapeFromTsNode",
     "TsNodeSetShapeDeferred"}

\* C15: GetShapeFromTsOutput, GetShapeFromTsValue, GetShapeFromTsNode and
\* TsNodeSetShapeDeferred applied to a node that is not a TsNode fail with an
\* error and hand back no shape; the call does not reach shape_fn, and the
\* node and the ShapeCache stay as they were.
C15_NotTsNodeFails ==
    [][/\ (ret' # ret /\ ret'.fn \in TsAccessors /\ ~IsTsNode(nodes[ret'.node])) =>
              /\ ~ret'.ok
              /\ ret'.error = "runtime_error"
              /\ "shape" \notin DOMAIN ret'
              /\ nodes' = nodes
              /\ cache' = cache
              /\ th' = th
       /\ \A n \in NodeIds : ~IsTsNode(nodes[n]) =>
              /\ nodes'[n] = nodes[n]
              /\ \A t \in Threads : th'[t].pc # "idle" => th'[t].node # n
      ]_vars

\* TsNodeSetShapeDeferred has just failed on the node of the other backend,
\* after a deferred resolution on a TsNode filled the ShapeCache.
C15_Witness ==
    /\ ret.fn = "TsNodeSetShapeDeferred"
    /\ ~IsTsNode(nodes[ret.node])
    /\ ~ret.ok
    /\ cache # {}
    /\ \E n \in NodeIds : IsTsNode(nodes[n]) /\ nodes[n].operands # <<>>
                          /\ nodes[n].shape_ # DefaultShape

\* C14: the ShapeCache never holds more entries than the capacity read from
\* the configuration when the cache was created (4096 when none is
\* configured), and never two entries under one key. An insertion of a new
\* key into a full cache leaves at least one key that was cached missing.
\* Every entry the cache holds is the shape that was inserted for its key.
C14_CacheBound ==
    [][/\ shape_cache_size' = shape_cache_size
       /\ shape_cache_size \in {DefaultShapeCacheSize} \cup (1..MaxCacheSize)
       /\ Cardinality(cache') <= shape_cache_size
       /\ \A e, f \in cache' : e.key = f.key => e = f
       /\ \A t \in Threads :
             LET key == NodeHash(nodes, th[t].node)
             IN  (th[t].pc = "add" /\ th'[t].pc = "idle") =>
                    /\ CacheHas(cache', key)
                    /\ (~CacheHas(cache, key) /\ Cardinality(cache) = shape_cache_size)
                          => \E e \in cache : ~CacheHas(cache', e.key)
                    /\ \A e \in cache' :
                          e \in cache \/ e = [key |-> key, value |-> th[t].result]
      ]_vars

\* A cache at its capacity holds an entry for one hash, while a node of
\* another hash that was resolved earlier has lost its entry.
C14_Witness ==
    /\ Cardinality(cache) = shape_cache_size
    /\ \E n \in OpNodeIds :
          /\ nodes[n].shape_ # DefaultShape
          /\ ~CacheHas(cache, nodes[n].dag_hash)
          /\ \E m \in OpNodeIds :
                /\ CacheHas(cache, nodes[m].dag_hash)
                /\ CacheValue(cache, nodes[m].dag_hash) = nodes[m].shape_

\* The nodes built without operands.
LeafNodeIds == {n \in NodeIds : nodes[n].operands = <<>>}

\* C16: the hash of a node built without operands is its node_hash, a
\* function of (op, shape, extra_seed): leaf nodes with equal op, shape and
\* seed have equal hashes. In static mode leaf nodes of one op and seed
\* whose shapes differ have different hashes; in dynamic mode leaf nodes of
\* one op and seed whose shapes have equal rank have equal hashes, whatever
\* their dimensions and element types.
C16_LeafHash ==
    \A n, m \in LeafNodeIds :
        /\ NodeHash(nodes, n) = nodes[n].node_hash
        /\ (nodes[n].op = nodes[m].op /\ nodes[n].hash_seed = nodes[m].hash_seed) =>
              /\ nodes[n].shape_ = nodes[m].shape_
                    => nodes[n].node_hash = nodes[m].node_hash
              /\ (~dynamic_mode /\ nodes[n].shape_ # nodes[m].shape_)
                    => nodes[n].node_hash # nodes[m].node_hash
              /\ (dynamic_mode /\ Rank(nodes[n].shape_) = Rank(nodes[m].shape_))
                    => nodes[n].node_hash = nodes[m].node_hash
              /\ (dynamic_mode /\ Rank(nodes[n].shape_) # Rank(nodes[m].shape_))
                    => nodes[n].node_hash # nodes[m].node_hash

\* Dynamic mode: three leaf nodes of one op and seed and of rank 1, two
\* differing in a dimension and two in the element type, have one hash.
C16_Witness ==
    /\ dynamic_mode
    /\ \E n, m, k \in LeafNodeIds :
          /\ nodes[n].op = nodes[m].op /\ nodes[n].op = nodes[k].op
          /\ nodes[n].hash_seed = nodes[m].hash_seed
          /\ nodes[n].hash_seed = nodes[k].hash_seed
          /\ nodes[n].shape_.dimensions # nodes[m].shape_.dimensions
          /\ nodes[n].shape_.element_type # nodes[k].shape_.element_type
          /\ Rank(nodes[n].shape_) = Rank(nodes[m].shape_)
          /\ Rank(nodes[n].shape_) = Rank(nodes[k].shape_)
          /\ nodes[n].node_hash = nodes[m].node_hash
          /\ nodes[n].node_hash = nodes[k].node_hash

\* C17: huber_loss and huber_loss_out fail for every delta <= 0, and
\* smooth_l1_loss_out fails for every beta < 0, before a kernel stub has run
\* and with the result not written; for every other value the call
\* succeeds, and smooth_l1_loss_out with beta = 0 does what l1_loss_out does.
C17_LossParameterChecks ==
    LET rejected == /\ ~loss.ok
                    /\ loss.events = <<>>
                    /\ loss.result = IF loss.fn = "huber_loss" THEN NoTensor
                                     ELSE OldResult
        computed(stub) == /\ loss.ok
                          /\ \E i \in 1..Len(loss.events) : loss.events[i] = stub
                          /\ loss.result # OldResult
                          /\ loss.result # NoTensor
    IN  /\ loss.fn \in {"huber_loss", "huber_loss_out"} =>
              IF loss.param <= 0 THEN rejected ELSE computed("huber_stub")
        /\ loss.fn = "smooth_l1_loss_out" =>
              IF loss.param < 0 THEN rejected
              ELSE IF loss.param = 0
              THEN /\ computed("l1_stub")
                   /\ \A i \in 1..Len(loss.events) : loss.events[i] # "smooth_l1_stub"
                   /\ loss.events = l1_loss_out(loss.input, loss.target,
                                                loss.reduction, OldResult).events
                   /\ loss.result = l1_loss_out(loss.input, loss.target,
                                                loss.reduction, OldResult).result
              ELSE computed("smooth_l1_stub")

\* huber_loss_out has just rejected delta = 0 and left result as it was.
C17_Witness ==
    /\ loss.fn = "huber_loss_out"
    /\ loss.param = 0
    /\ ~loss.ok
    /\ loss.events = <<>>
    /\ loss.result = OldResult

====
